---- MODULE Spec2Model ----
(***************************************************************************)
(* Windows system maintenance CLI (radday5/system-check-cli).               *)
(*                                                                         *)
(* The model follows the newest variant of the script, src/unnamed/part_000 *)
(* (catalog of eight operations, inquirer prompt, runTask wrapper).         *)
(*                                                                         *)
(*   Spec         the whole run: main(), checkAdmin(), the catalog loop,    *)
(*                every operation, writeLog and the top-level catch.        *)
(*                An invocation of runCommand is a spawn step followed by   *)
(*                a settle step whose outcome is computed by the 'close'    *)
(*                and 'error' handlers of runCommand.                       *)
(*   InvokerSpec  one runCommand invocation, event by event: stdout and     *)
(*                stderr 'data', 'error', 'close', and the delivery of the  *)
(*                promise's outcome to the awaiting caller.                 *)
(*                                                                         *)
(* Text is a sequence of chunks; concatenation of text is \o.               *)
(***************************************************************************)
EXTENDS Integers, Sequences, FiniteSets, TLC

VARIABLES
    \* ---- the run (Spec) ----
    silent,       \* argv.silent
    pc,           \* position of the single async flow main() is in
    tasksToRun,   \* main: tasksToRun
    idx,          \* main: position of the for-of loop in tasksToRun (1-based)
    cur,          \* key of the catalog operation in progress, or "none"
    cmdNo,        \* which runCommand of the operation is in progress (choco has two)
    err,          \* the error being thrown / caught
    held,         \* outcome of runCommand kept while a finally block runs
    log,          \* content of the log file: sequence of entries
    now,          \* logical clock read by new Date() in writeLog
    pending,      \* writeLog calls nobody awaits (cleanup's rm().catch callback)
    logFailures,  \* number of fs.appendFile calls that failed so far
    fsFailures,   \* number of other fs calls (writeFile, unlink, readdir, rm) that failed so far
    children,     \* child processes spawned and not yet closed
    started,      \* keys of the operations started, in order
    gate,         \* "pending" | "passed" | "failed": how checkAdmin ended
    exitCode,     \* process exit status, NotExited while running
    raised,       \* where the error that reached main().catch (or crashed the process) came from
    gained,       \* entries the operation (or the gate) in progress has appended to the log
    codes,        \* exit codes of the invocations of the operation in progress
    last,         \* record of the operation that completed last
    critical,     \* what the top-level catch did: [printed, logCalled]
    scripts,      \* temp script files present in os.tmpdir()
    todo,         \* cleanup: entries of the directory still to remove
    pathIdx,      \* cleanup: index into tempPaths
    calls,        \* calls made by the operation (or the gate) in progress, in order: spawn,
                  \* writeFile, unlink, readdir, and the rm calls that were rejected
    \* ---- one invocation (InvokerSpec) ----
    child,        \* the child process: what it will emit and how it ends
    stdoutBuf,    \* runCommand: let stdout
    stderrBuf,    \* runCommand: let stderr
    promise,      \* the promise runCommand returns
    observed      \* outcomes delivered to the caller awaiting the promise

runVars == <<silent, pc, tasksToRun, idx, cur, cmdNo, err, held, log, now, pending,
             logFailures, children, started, gate, exitCode, raised, gained, codes,
             last, critical, scripts, todo, pathIdx, fsFailures, calls>>
invVars == <<child, stdoutBuf, stderrBuf, promise, observed>>
vars == <<runVars, invVars>>

(***************************************************************************)
(* Bounds                                                                   *)
(***************************************************************************)
MaxPicked == 2        \* the prompt returns at most this many keys
MaxLogFailures == 1   \* at most this many log appends fail in one run
MaxFsFailures == 1    \* at most this many writeFile/unlink/readdir/rm calls fail in one run
MaxFiles == 1         \* foreign entries found in a temp directory
MaxChunks == 2        \* 'data' chunks a child writes to one stream

NotExited == "running"

(***************************************************************************)
(* Errors and outcomes                                                      *)
(***************************************************************************)
Err(kind, code, text) == [kind |-> kind, code |-> code, text |-> text]
NoErr == Err("none", 0, <<>>)

\* new Error(`Command failed with exit code ${code}\n${stderr}`)
CommandFailed(code, stderr) == Err("exit", code, stderr)
\* the error object of the child's 'error' event
SpawnError(name) == Err("spawn", 0, <<name>>)
\* errors of a spawn that fails
SpawnErrors == {"ENOENT", "EACCES"}
\* the code 'close' reports after a failed spawn: the negative errno
spawnCode(name) == IF name = "ENOENT" THEN -2 ELSE -13
\* rejection of an fs call
FsError(call) == Err("fs", 0, <<call>>)
\* SyntaxError thrown by JSON.parse
ParseError == Err("parse", 0, <<>>)
\* rejection of inquirer.prompt
PromptError == Err("prompt", 0, <<>>)

Resolved(stdout, stderr) == [ok |-> TRUE, stdout |-> stdout, stderr |-> stderr, err |-> NoErr]
Rejected(e) == [ok |-> FALSE, stdout |-> <<>>, stderr |-> <<>>, err |-> e]
NoOutcome == Rejected(NoErr)

(***************************************************************************)
(* runCommand: the handlers                                                 *)
(***************************************************************************)
\* child.stdout.on('data') / child.stderr.on('data'): buf += data.toString()
onData(buf, data) == buf \o <<data>>

\* a close handler that forgets the captured stderr
closeHandler_NoStderr(code, stdout, stderr) ==
    IF code = 0 THEN Resolved(stdout, stderr) ELSE Rejected(CommandFailed(code, <<>>))

\* child.on('close', code => ...)
closeHandler(code, stdout, stderr) ==
    IF code = 0 THEN Resolved(stdout, stderr)
    ELSE Rejected(CommandFailed(code, stderr))

\* child.on('error', err => reject(err))
errorHandler(e) == Rejected(e)

\* a settle that lets a later resolve/reject replace the outcome
settle_Overwrite(p, outcome) == [state |-> "settled", outcome |-> outcome, delivered |-> FALSE]

\* resolve / reject of the promise built at new Promise(...): the first call
\* settles it, later calls are ignored
settle(p, outcome) ==
    IF p.state = "pending"
    THEN [state |-> "settled", outcome |-> outcome, delivered |-> FALSE]
    ELSE p

NoPromise == [state |-> "none", outcome |-> NoOutcome, delivered |-> FALSE]
NewPromise == [state |-> "pending", outcome |-> NoOutcome, delivered |-> FALSE]

\* no invocation is being looked at
NoChild == [phase |-> "none", spawnErr |-> "", code |-> 0,
            fullOut |-> <<>>, fullErr |-> <<>>, out |-> <<>>, errOut |-> <<>>]

InvIdle ==
    /\ child = NoChild /\ stdoutBuf = <<>> /\ stderrBuf = <<>>
    /\ promise = NoPromise /\ observed = <<>>


(***************************************************************************)
(* The catalog (main: const tasks)                                          *)
(***************************************************************************)
Keys == <<"hwInfo", "winUpdate", "winget", "choco", "dism", "sfc", "cleanup", "optimize">>
KeySet == {Keys[i] : i \in 1..Len(Keys)}
CatalogIndex(k) == CHOOSE i \in 1..Len(Keys) : Keys[i] = k

\* the catalog's checked flag
checked(k) == k # "optimize"

\* the text the operation's spinner is started with
title(k) ==
    CASE k = "hwInfo"    -> "Gathering Hardware & OS Information"
      [] k = "winUpdate" -> "Checking for Windows Updates"
      [] k = "winget"    -> "Updating Winget Software"
      [] k = "choco"     -> "Updating Chocolatey Software"
      [] k = "dism"      -> "Checking DISM Health"
      [] k = "sfc"       -> "Running System File Checker (sfc /scannow)"
      [] k = "cleanup"   -> "Cleaning Temporary Files"
      [] k = "optimize"  -> "Optimizing System Drive (C:)"

\* the text put before " failed: " in the operation's ERROR entry
\* (runTask uses its title; runHardwareCheck writes its own literal)
failTitle(k) ==
    IF k = "hwInfo" THEN "Hardware & OS Information" ELSE title(k)

\* cleanup: const tempPaths
tempPaths == <<"os.tmpdir()", "C:\\Windows\\Temp">>

\* let tasksToRun = Object.keys(tasks): what runs when the prompt is skipped
defaultTasksToRun == Keys

\* what inquirer's checkbox prompt can hand back: distinct catalog keys, in
\* an order the prompt decides
PromptResults ==
    {s \in UNION {[1..n -> KeySet] : n \in 0..MaxPicked} :
        \A i, j \in 1..Len(s) : i # j => s[i] # s[j]}

(***************************************************************************)
(* Inputs of the run: how an invocation can end                             *)
(***************************************************************************)
\* With {shell: true} the child is the shell, which spawns; a command that is
\* missing ends the shell with a nonzero code. The run therefore takes its
\* outcomes from 'close'; failed spawns are looked at in InvokerSpec.
ExitCodesOf(k) == IF k = "sfc" THEN {0, 1, 2, 10} ELSE {0, 1}
TaskStdouts == {<<"{json}">>, <<"text">>}
TaskStderrs == {<<"stderr">>}
TaskOutcomes(k) ==
    {closeHandler(c, so, se) : c \in ExitCodesOf(k), so \in TaskStdouts, se \in TaskStderrs}

\* the exit code behind an outcome
exitOf(o) ==
    IF o.ok THEN 0 ELSE IF o.err.kind = "exit" THEN o.err.code ELSE spawnCode(o.err.text[1])

\* JSON.parse(stdout) returns
jsonParses(stdout) == stdout = <<"{json}">>

RECURSIVE LeadingDigit(_)
LeadingDigit(n) == IF n < 10 THEN n ELSE LeadingDigit(n \div 10)

\* error.message.includes('exit code 1'): the message of a failed command is
\* "Command failed with exit code <code>\n<stderr>"
includesExitCode1(e) ==
    /\ e.kind = "exit"
    /\ \/ e.code >= 1 /\ LeadingDigit(e.code) = 1
       \/ \E i \in 1..Len(e.text) : e.text[i] = "exit code 1"

\* runSfcScan: catch (error) { if (...) throw new Error(<CBS.log message>); throw error; }
SfcCbsError == Err("sfcCbs", 0, <<>>)
sfcCatch(e) == IF includesExitCode1(e) THEN SfcCbsError ELSE e

\* runChocoUpdates: catch around `choco --version`
ChocoMissing == Err("chocoMissing", 0, <<>>)
chocoCatch(e) == ChocoMissing

\* rejection of fs.appendFile
AppendError == FsError("appendFile")

(***************************************************************************)
(* writeLog                                                                 *)
(***************************************************************************)
\* const timestamp = new Date().toISOString(); const logEntry = `${timestamp} [${level}] ${message}${os.EOL}`
Entry(level, what, ttl, e) ==
    [ts |-> now, level |-> level, what |-> what, title |-> ttl, err |-> e]

\* the budget of failing fs calls other than appends
FsMayFail == fsFailures < MaxFsFailures

\* the budget of failing appends
MayFail(ok) == ok \/ logFailures < MaxLogFailures

\* await writeLog(...): one entry stamped now; ok says whether fs.appendFile
\* fulfilled. When it rejects, writeLog rejects too: it has no try/catch.
WriteLog(entry, ok) ==
    /\ now' = now + 1
    /\ logFailures' = IF ok THEN logFailures ELSE logFailures + 1
    /\ log' = IF ok THEN Append(log, entry) ELSE log
    /\ gained' = IF ok THEN Append(gained, entry) ELSE gained

\* the error reaches main().catch
ToCritical(origin, e) ==
    /\ pc' = "critical"
    /\ err' = e
    /\ raised' = origin

\* one fs or child_process call: what was called, on what, whether it fulfilled
Call(call, arg, ok) == [call |-> call, arg |-> arg, ok |-> ok]

\* the command line of the n-th runCommand of operation k ("admin" is checkAdmin)
command(k, n) ==
    CASE k = "admin"     -> "net session"
      [] k = "hwInfo"    -> "powershell.exe -ExecutionPolicy Bypass -File hw-info.ps1"
      [] k = "winUpdate" -> "powershell.exe -ExecutionPolicy Bypass -File ps-script.ps1"
      [] k = "winget"    -> "winget source update"
      [] k = "choco"     -> IF n = 1 THEN "choco --version" ELSE "choco outdated"
      [] k = "dism"      -> "Dism.exe /Online /Cleanup-Image /CheckHealth"
      [] k = "sfc"       -> "sfc /scannow"
      [] k = "optimize"  -> "powershell.exe -Command Optimize-Volume -DriveLetter C"

NoLast == [key |-> "none", title |-> "", ok |-> FALSE, codes |-> <<>>, gained |-> <<>>]

(***************************************************************************)
(* main and checkAdmin                                                      *)
(***************************************************************************)
Init ==
    /\ silent \in BOOLEAN
    /\ pc = "main_start"
    /\ tasksToRun = <<>> /\ idx = 1
    /\ cur = "none" /\ cmdNo = 1 /\ err = NoErr /\ held = NoOutcome
    /\ log = <<>> /\ now = 0 /\ pending = <<>> /\ logFailures = 0 /\ fsFailures = 0
    /\ children = 0 /\ started = <<>> /\ gate = "pending"
    /\ exitCode = NotExited /\ raised = "none" /\ gained = <<>> /\ codes = <<>>
    /\ last = NoLast
    /\ critical = [printed |-> FALSE, logCalled |-> FALSE]
    /\ scripts = {} /\ todo = <<>> /\ pathIdx = 1 /\ calls = <<>>
    /\ InvIdle

\* main: await writeLog('Script started.')
MainStart ==
    /\ pc = "main_start"
    /\ \E ok \in BOOLEAN :
        /\ MayFail(ok)
        /\ WriteLog(Entry("INFO", "started", "", NoErr), ok)
        /\ IF ok THEN pc' = "admin_spawn" /\ UNCHANGED <<err, raised>>
                 ELSE ToCritical("start", AppendError)
    /\ UNCHANGED <<silent, tasksToRun, idx, cur, cmdNo, held, pending, children, started,
                   gate, exitCode, codes, last, critical, scripts, todo, pathIdx, invVars, calls, fsFailures>>

\* checkAdmin: spinner start, runCommand('net', ['session']) spawns its child
AdminSpawn ==
    /\ pc = "admin_spawn"
    /\ pc' = "admin_wait"
    /\ children' = children + 1
    /\ gained' = <<>>
    /\ calls' = <<Call("spawn", command("admin", 1), TRUE)>>
    /\ UNCHANGED <<silent, tasksToRun, idx, cur, cmdNo, err, held, log, now, pending,
                   logFailures, started, gate, exitCode, raised, codes, last, critical,
                   scripts, todo, pathIdx, invVars, fsFailures>>

\* checkAdmin: the await of runCommand settles
AdminSettle ==
    /\ pc = "admin_wait"
    /\ \E o \in TaskOutcomes("admin") :
        IF o.ok THEN pc' = "admin_ok" /\ err' = err
                ELSE pc' = "admin_catch" /\ err' = o.err
    /\ children' = children - 1
    /\ UNCHANGED <<silent, tasksToRun, idx, cur, cmdNo, held, log, now, pending,
                   logFailures, started, gate, exitCode, raised, gained, codes, last,
                   critical, scripts, todo, pathIdx, invVars, calls, fsFailures>>

\* checkAdmin, try block: spinner.succeed, await writeLog('Running as Administrator: OK');
\* a rejection of that writeLog is caught by the same try
AdminOk ==
    /\ pc = "admin_ok"
    /\ \E ok \in BOOLEAN :
        /\ MayFail(ok)
        /\ WriteLog(Entry("INFO", "adminOK", "", NoErr), ok)
        /\ IF ok THEN pc' = "select" /\ gate' = "passed" /\ err' = err
                 ELSE pc' = "admin_catch" /\ gate' = gate /\ err' = AppendError
    /\ UNCHANGED <<silent, tasksToRun, idx, cur, cmdNo, held, pending, children, started,
                   exitCode, raised, codes, last, critical, scripts, todo, pathIdx, invVars, calls, fsFailures>>

\* a catch block that reports the missing privileges and returns
afterNotAdmin_Continue == "select"

\* checkAdmin, catch block: where the flow is after process.exit(1)
afterNotAdmin == "exited"

\* checkAdmin, catch block: spinner.fail, messages, await writeLog(..., 'ERROR'), process.exit(1)
AdminCatch ==
    /\ pc = "admin_catch"
    /\ gate' = "failed"
    /\ \E ok \in BOOLEAN :
        /\ MayFail(ok)
        /\ WriteLog(Entry("ERROR", "notAdmin", "", NoErr), ok)
        /\ IF ok
           THEN /\ pc' = afterNotAdmin
                /\ exitCode' = IF afterNotAdmin = "exited" THEN 1 ELSE exitCode
                /\ UNCHANGED <<err, raised>>
           ELSE /\ ToCritical("gate", AppendError)
                /\ exitCode' = exitCode
    /\ UNCHANGED <<silent, tasksToRun, idx, cur, cmdNo, held, pending, children, started,
                   codes, last, critical, scripts, todo, pathIdx, invVars, calls, fsFailures>>

\* main: argv.silent is set, the prompt is skipped
SelectSilent ==
    /\ pc = "select"
    /\ silent
    /\ tasksToRun' = defaultTasksToRun
    /\ idx' = 1
    /\ pc' = IF Len(tasksToRun') = 0 THEN "done" ELSE "loop"
    /\ UNCHANGED <<silent, cur, cmdNo, err, held, log, now, pending, logFailures, children,
                   started, gate, exitCode, raised, gained, codes, last, critical, scripts,
                   todo, pathIdx, invVars, calls, fsFailures>>

\* main: tasksToRun = response.selectedTasks; an empty selection returns
SelectPrompt ==
    /\ pc = "select"
    /\ ~silent
    /\ \E sel \in PromptResults : tasksToRun' = sel
    /\ idx' = 1
    /\ pc' = IF Len(tasksToRun') = 0 THEN "done" ELSE "loop"
    /\ UNCHANGED <<silent, cur, cmdNo, err, held, log, now, pending, logFailures, children,
                   started, gate, exitCode, raised, gained, codes, last, critical, scripts,
                   todo, pathIdx, invVars, calls, fsFailures>>

\* main: await inquirer.prompt(...) rejects (no TTY, prompt aborted)
PromptRejects ==
    /\ pc = "select"
    /\ ~silent
    /\ ToCritical("prompt", PromptError)
    /\ UNCHANGED <<silent, tasksToRun, idx, cur, cmdNo, held, log, now, pending,
                   logFailures, children, started, gate, exitCode, gained, codes, last,
                   critical, scripts, todo, pathIdx, invVars, calls, fsFailures>>

\* where an operation begins
entryOf(k) ==
    CASE k \in {"hwInfo", "winUpdate"} -> "script_write"
      [] k = "cleanup" -> "clean_log"
      [] OTHER -> "cmd_spawn"

\* main: for (const taskKey of tasksToRun) await tasks[taskKey].task() -- the
\* operation is called and starts its spinner
StartTask ==
    /\ pc = "loop"
    /\ idx <= Len(tasksToRun)
    /\ cur' = tasksToRun[idx]
    /\ started' = Append(started, tasksToRun[idx])
    /\ pc' = entryOf(tasksToRun[idx])
    /\ cmdNo' = 1
    /\ pathIdx' = 1
    /\ gained' = <<>>
    /\ codes' = <<>>
    /\ calls' = <<>>
    /\ UNCHANGED <<silent, tasksToRun, idx, err, held, log, now, pending, logFailures,
                   children, gate, exitCode, raised, last, critical, scripts, todo, invVars, fsFailures>>

\* main: the loop is over; the banner and the log location are printed and main returns
LoopEnd ==
    /\ pc = "loop"
    /\ idx > Len(tasksToRun)
    /\ pc' = "done"
    /\ UNCHANGED <<silent, tasksToRun, idx, cur, cmdNo, err, held, log, now, pending,
                   logFailures, children, started, gate, exitCode, raised, gained, codes,
                   last, critical, scripts, todo, pathIdx, invVars, calls, fsFailures>>

\* main().catch: print CRITICAL ERROR, await writeLog(..., 'ERROR'), process.exit(1).
\* A rejection of that writeLog is an unhandled rejection, which ends the
\* process with status 1 as well.
Critical ==
    /\ pc = "critical"
    /\ critical' = [printed |-> TRUE, logCalled |-> TRUE]
    /\ \E ok \in BOOLEAN :
        /\ MayFail(ok)
        /\ WriteLog(Entry("ERROR", "critical", "", err), ok)
    /\ pc' = "exited"
    /\ exitCode' = 1
    /\ pending' = <<>>
    /\ UNCHANGED <<silent, tasksToRun, idx, cur, cmdNo, err, held, children, started, gate,
                   raised, codes, last, scripts, todo, pathIdx, invVars, calls, fsFailures>>

\* main has returned and nothing is left on the event loop: the process ends
NaturalExit ==
    /\ pc = "done"
    /\ pending = <<>>
    /\ pc' = "exited"
    /\ exitCode' = 0
    /\ UNCHANGED <<silent, tasksToRun, idx, cur, cmdNo, err, held, log, now, pending,
                   logFailures, children, started, gate, raised, gained, codes, last,
                   critical, scripts, todo, pathIdx, invVars, calls, fsFailures>>

(***************************************************************************)
(* The operations                                                           *)
(***************************************************************************)
\* the operation returns its boolean to main's loop, which goes on
Complete(ok) ==
    /\ last' = [key |-> cur, title |-> title(cur), ok |-> ok, codes |-> codes,
                gained |-> gained']
    /\ cur' = "none"
    /\ idx' = idx + 1
    /\ pc' = "loop"

\* runWindowsUpdateCheck / runHardwareCheck: await fs.writeFile(scriptPath, psScript)
ScriptWrite ==
    /\ pc = "script_write"
    /\ \/ /\ scripts' = scripts \cup {cur}
          /\ pc' = "cmd_spawn"
          /\ err' = err
          /\ fsFailures' = fsFailures
          /\ calls' = Append(calls, Call("writeFile", cur, TRUE))
       \/ /\ FsMayFail
          /\ fsFailures' = fsFailures + 1
          /\ scripts' = scripts
          /\ pc' = "task_catch"
          /\ err' = FsError("writeFile")
          /\ calls' = Append(calls, Call("writeFile", cur, FALSE))
    /\ UNCHANGED <<silent, tasksToRun, idx, cur, cmdNo, held, log, now, pending,
                   logFailures, children, started, gate, exitCode, raised, gained, codes,
                   last, critical, todo, pathIdx, invVars>>

\* runCommand: spawn(command, args, ...)
CmdSpawn ==
    /\ pc = "cmd_spawn"
    /\ pc' = "cmd_wait"
    /\ children' = children + 1
    /\ calls' = Append(calls, Call("spawn", command(cur, cmdNo), TRUE))
    /\ UNCHANGED <<silent, tasksToRun, idx, cur, cmdNo, err, held, log, now, pending,
                   logFailures, started, gate, exitCode, raised, gained, codes, last,
                   critical, scripts, todo, pathIdx, invVars, fsFailures>>

Goto(p) == [pc |-> p, err |-> NoErr, held |-> NoOutcome, cmdNo |-> 1]
Catch(e) == [pc |-> "task_catch", err |-> e, held |-> NoOutcome, cmdNo |-> 1]

\* what operation k does with the outcome o of its n-th runCommand
afterCommand(k, n, o) ==
    CASE k \in {"winget", "dism", "optimize"} ->
            IF o.ok THEN Goto("task_ok") ELSE Catch(o.err)
      [] k = "sfc" ->
            IF o.ok THEN Goto("task_ok") ELSE Catch(sfcCatch(o.err))
      [] k = "choco" /\ n = 1 ->
            IF o.ok THEN [Goto("cmd_spawn") EXCEPT !.cmdNo = 2] ELSE Catch(chocoCatch(o.err))
      [] k = "choco" /\ n # 1 ->
            IF o.ok THEN Goto("task_ok") ELSE Catch(o.err)
      [] k = "winUpdate" ->
            \* try { ... } finally { unlink }: the outcome waits for the finally block
            [Goto("script_unlink") EXCEPT !.held = o]
      [] k = "hwInfo" ->
            \* no finally: a rejection or a JSON.parse error goes straight to catch
            IF ~o.ok THEN Catch(o.err)
            ELSE IF jsonParses(o.stdout) THEN Goto("script_unlink") ELSE Catch(ParseError)

\* the await of runCommand settles and the operation goes on
CmdSettle ==
    /\ pc = "cmd_wait"
    /\ \E o \in TaskOutcomes(cur) :
        LET nxt == afterCommand(cur, cmdNo, o) IN
        /\ pc' = nxt.pc
        /\ err' = nxt.err
        /\ held' = nxt.held
        /\ cmdNo' = nxt.cmdNo
        /\ codes' = Append(codes, exitOf(o))
    /\ children' = children - 1
    /\ UNCHANGED <<silent, tasksToRun, idx, cur, log, now, pending, logFailures, started,
                   gate, exitCode, raised, gained, last, critical, scripts, todo, pathIdx,
                   invVars, calls, fsFailures>>

\* where the operation is once its temp script has been dealt with
afterUnlink(k, h) ==
    IF k = "hwInfo" THEN Goto("hw_log")
    ELSE IF h.ok THEN Goto("task_ok") ELSE Catch(h.err)

\* await fs.unlink(scriptPath).catch(...)
ScriptUnlink ==
    /\ pc = "script_unlink"
    /\ \/ /\ scripts' = scripts \ {cur}
          /\ pc' = afterUnlink(cur, held).pc
          /\ err' = afterUnlink(cur, held).err
          /\ held' = NoOutcome
          /\ fsFailures' = fsFailures
          /\ calls' = Append(calls, Call("unlink", cur, TRUE))
       \/ /\ FsMayFail
          /\ fsFailures' = fsFailures + 1
          /\ pc' = "unlink_warn"
          /\ calls' = Append(calls, Call("unlink", cur, FALSE))
          /\ UNCHANGED <<scripts, err, held>>
    /\ UNCHANGED <<silent, tasksToRun, idx, cur, cmdNo, log, now, pending, logFailures,
                   children, started, gate, exitCode, raised, gained, codes, last, critical,
                   todo, pathIdx, invVars>>

\* the unlink's catch callback: err => writeLog(`Failed to delete temp script: ...`, 'WARN');
\* its promise is returned, so it is awaited, and its rejection is thrown
UnlinkWarn ==
    /\ pc = "unlink_warn"
    /\ \E ok \in BOOLEAN :
        /\ MayFail(ok)
        /\ WriteLog(Entry("WARN", "unlinkFailed", "", FsError("unlink")), ok)
        /\ IF ok
           THEN /\ pc' = afterUnlink(cur, held).pc
                /\ err' = afterUnlink(cur, held).err
           ELSE /\ pc' = "task_catch"
                /\ err' = AppendError
    /\ held' = NoOutcome
    /\ UNCHANGED <<silent, tasksToRun, idx, cur, cmdNo, pending, children, started, gate,
                   exitCode, raised, codes, last, critical, scripts, todo, pathIdx, invVars, calls, fsFailures>>

\* runHardwareCheck: spinner.succeed, console.log(output),
\* await writeLog('Gathered Hardware & OS Information', 'INFO'), return true
HwLog ==
    /\ pc = "hw_log"
    /\ \E ok \in BOOLEAN :
        /\ MayFail(ok)
        /\ WriteLog(Entry("INFO", "gathered", "", NoErr), ok)
        /\ IF ok
           THEN Complete(TRUE) /\ err' = err
           ELSE /\ pc' = "task_catch"
                /\ err' = AppendError
                /\ UNCHANGED <<last, cur, idx>>
    /\ UNCHANGED <<silent, tasksToRun, cmdNo, held, pending, children, started, gate,
                   exitCode, raised, codes, critical, scripts, todo, pathIdx, invVars, calls, fsFailures>>

\* runTask, try block after the task returned: spinner.succeed(...), return true
TaskOk ==
    /\ pc = "task_ok"
    /\ UNCHANGED <<silent, tasksToRun, cmdNo, err, held, log, now, pending, logFailures,
                   children, started, gate, exitCode, raised, gained, codes, critical,
                   scripts, todo, pathIdx, invVars, calls, fsFailures>>
    /\ Complete(TRUE)

\* runTask / runHardwareCheck, catch block: spinner.fail, console.error,
\* await writeLog(`${title} failed: ${error.message}`, 'ERROR'), return false
TaskCatch ==
    /\ pc = "task_catch"
    /\ \E ok \in BOOLEAN :
        /\ MayFail(ok)
        /\ WriteLog(Entry("ERROR", "taskFailed", failTitle(cur), err), ok)
        /\ IF ok
           THEN Complete(FALSE) /\ UNCHANGED <<err, raised>>
           ELSE ToCritical("loop", AppendError) /\ UNCHANGED <<last, cur, idx>>
    /\ UNCHANGED <<silent, tasksToRun, cmdNo, held, pending, children, started, gate,
                   exitCode, codes, critical, scripts, todo, pathIdx, invVars, calls, fsFailures>>

(***************************************************************************)
(* runTempFileCleanup                                                       *)
(***************************************************************************)
\* the order readdir lists temp scripts in
scriptList == (IF "hwInfo" \in scripts THEN <<"hwInfo">> ELSE <<>>)
                \o (IF "winUpdate" \in scripts THEN <<"winUpdate">> ELSE <<>>)

\* await fs.readdir(tempPath): os.tmpdir() holds the log file (once an append
\* has created it) and the temp scripts still there; both directories hold n
\* entries of other programs, whose names sort before (front) or after the
\* program's own files
listing(p, n, front) ==
    LET own == IF p = 1 THEN (IF log # <<>> THEN <<"log">> ELSE <<>>) \o scriptList ELSE <<>>
        others == [i \in 1..n |-> "file"]
    IN  IF front THEN others \o own ELSE own \o others

\* the for loop over tempPaths goes to the next path, or the task returns
NextPath ==
    IF pathIdx < Len(tempPaths)
    THEN pc' = "clean_log" /\ pathIdx' = pathIdx + 1
    ELSE pc' = "task_ok" /\ pathIdx' = pathIdx

\* await writeLog(`Cleaning folder: ${tempPath}`)
CleanLog ==
    /\ pc = "clean_log"
    /\ \E ok \in BOOLEAN :
        /\ MayFail(ok)
        /\ WriteLog(Entry("INFO", "cleaningFolder", tempPaths[pathIdx], NoErr), ok)
        /\ IF ok THEN pc' = "clean_readdir" /\ err' = err
                 ELSE pc' = "clean_catch" /\ err' = AppendError
    /\ UNCHANGED <<silent, tasksToRun, idx, cur, cmdNo, held, pending, children, started,
                   gate, exitCode, raised, codes, last, critical, scripts, todo, pathIdx,
                   invVars, calls, fsFailures>>

\* const files = await fs.readdir(tempPath)
CleanReaddir ==
    /\ pc = "clean_readdir"
    /\ \/ /\ \E n \in 0..MaxFiles, front \in BOOLEAN : todo' = listing(pathIdx, n, front)
          /\ pc' = "clean_rm"
          /\ err' = err
          /\ fsFailures' = fsFailures
          /\ calls' = Append(calls, Call("readdir", tempPaths[pathIdx], TRUE))
       \/ /\ FsMayFail
          /\ fsFailures' = fsFailures + 1
          /\ todo' = todo
          /\ pc' = "clean_catch"
          /\ err' = FsError("readdir")
          /\ calls' = Append(calls, Call("readdir", tempPaths[pathIdx], FALSE))
    /\ UNCHANGED <<silent, tasksToRun, idx, cur, cmdNo, held, log, now, pending,
                   logFailures, children, started, gate, exitCode, raised, gained, codes,
                   last, critical, scripts, pathIdx, invVars>>

\* await fs.rm(filePath, {recursive: true, force: true}).catch(err => { writeLog(..., 'WARN'); }):
\* the callback calls writeLog and returns without awaiting it
CleanRm ==
    /\ pc = "clean_rm"
    /\ todo # <<>>
    /\ todo' = Tail(todo)
    /\ \/ \* removed
          /\ log' = IF Head(todo) = "log" THEN <<>> ELSE log
          /\ scripts' = scripts \ {Head(todo)}
          /\ UNCHANGED <<pending, now, fsFailures, calls>>
       \/ \* not removed: the WARN entry is stamped now and its append is left in flight
          /\ FsMayFail
          /\ fsFailures' = fsFailures + 1
          /\ pending' = Append(pending, Entry("WARN", "couldNotDelete", Head(todo), FsError("rm")))
          /\ now' = now + 1
          /\ calls' = Append(calls, Call("rm", Head(todo), FALSE))
          /\ UNCHANGED <<log, scripts>>
    /\ UNCHANGED <<silent, pc, tasksToRun, idx, cur, cmdNo, err, held, logFailures, children,
                   started, gate, exitCode, raised, gained, codes, last, critical, pathIdx,
                   invVars>>

\* the for loop over files is over
CleanDirDone ==
    /\ pc = "clean_rm"
    /\ todo = <<>>
    /\ NextPath
    /\ UNCHANGED <<silent, tasksToRun, idx, cur, cmdNo, err, held, log, now, pending,
                   logFailures, children, started, gate, exitCode, raised, gained, codes,
                   last, critical, scripts, todo, invVars, calls, fsFailures>>

\* catch (err) { await writeLog(`Could not access temp path ...`, 'WARN'); }
CleanCatch ==
    /\ pc = "clean_catch"
    /\ \E ok \in BOOLEAN :
        /\ MayFail(ok)
        /\ WriteLog(Entry("WARN", "couldNotAccess", tempPaths[pathIdx], err), ok)
        /\ IF ok THEN NextPath /\ err' = err
                 ELSE pc' = "task_catch" /\ err' = AppendError /\ pathIdx' = pathIdx
    /\ UNCHANGED <<silent, tasksToRun, idx, cur, cmdNo, held, pending, children, started,
                   gate, exitCode, raised, codes, last, critical, scripts, todo, invVars, calls, fsFailures>>

RemoveAt(s, i) == [j \in 1..(Len(s) - 1) |-> IF j < i THEN s[j] ELSE s[j + 1]]

\* an append nobody awaits completes: the entry lands in the file, or the
\* rejection is unhandled and ends the process with status 1 (the default of
\* Node.js since version 15), without passing main().catch
FloatSettle ==
    /\ pc \notin {"exited", "invoker"}
    /\ \E i \in 1..Len(pending) :
        \/ /\ log' = Append(log, pending[i])
           /\ pending' = RemoveAt(pending, i)
           /\ UNCHANGED <<pc, exitCode, raised, logFailures>>
        \/ /\ logFailures < MaxLogFailures
           /\ logFailures' = logFailures + 1
           /\ pending' = <<>>
           /\ pc' = "exited"
           /\ exitCode' = 1
           /\ raised' = "unhandledRejection"
           /\ log' = log
    /\ UNCHANGED <<silent, tasksToRun, idx, cur, cmdNo, err, held, now, children, started,
                   gate, gained, codes, last, critical, scripts, todo, pathIdx, invVars, calls, fsFailures>>

Next ==
    \/ MainStart
    \/ AdminSpawn
    \/ AdminSettle
    \/ AdminOk
    \/ AdminCatch
    \/ SelectSilent
    \/ SelectPrompt
    \/ PromptRejects
    \/ StartTask
    \/ LoopEnd
    \/ ScriptWrite
    \/ CmdSpawn
    \/ CmdSettle
    \/ ScriptUnlink
    \/ UnlinkWarn
    \/ HwLog
    \/ TaskOk
    \/ TaskCatch
    \/ CleanLog
    \/ CleanReaddir
    \/ CleanRm
    \/ CleanDirDone
    \/ CleanCatch
    \/ FloatSettle
    \/ Critical
    \/ NaturalExit

Spec == Init /\ [][Next]_vars

(***************************************************************************)
(* InvokerSpec: one invocation of runCommand, event by event                *)
(***************************************************************************)
Chunks == {"a", "b"}
Texts == UNION {[1..n -> Chunks] : n \in 0..MaxChunks}
\* exit codes a spawned child ends with
InvExitCodes == {0, 1, 2}

\* the run's variables while only the invoker is looked at
RunIdle ==
    /\ silent = FALSE /\ pc = "invoker" /\ tasksToRun = <<>> /\ idx = 1
    /\ cur = "none" /\ cmdNo = 1 /\ err = NoErr /\ held = NoOutcome
    /\ log = <<>> /\ now = 0 /\ pending = <<>> /\ logFailures = 0 /\ fsFailures = 0
    /\ children = 0 /\ started = <<>> /\ gate = "pending"
    /\ exitCode = NotExited /\ raised = "none" /\ gained = <<>> /\ codes = <<>>
    /\ last = NoLast
    /\ critical = [printed |-> FALSE, logCalled |-> FALSE]
    /\ scripts = {} /\ todo = <<>> /\ pathIdx = 1 /\ calls = <<>>

InvokerInit == RunIdle /\ InvIdle

\* new Promise(...), spawn(command, args, {stdio: 'pipe', shell: true}), let stdout = '', let stderr = ''
InvSpawn ==
    /\ child.phase = "none"
    /\ \/ \E code \in InvExitCodes, o \in Texts, e \in Texts :
            child' = [phase |-> "running", spawnErr |-> "", code |-> code,
                      fullOut |-> o, fullErr |-> e, out |-> o, errOut |-> e]
       \/ \E se \in SpawnErrors :
            child' = [phase |-> "spawnFailed", spawnErr |-> se, code |-> spawnCode(se),
                      fullOut |-> <<>>, fullErr |-> <<>>, out |-> <<>>, errOut |-> <<>>]
    /\ stdoutBuf' = <<>>
    /\ stderrBuf' = <<>>
    /\ promise' = NewPromise
    /\ observed' = <<>>
    /\ UNCHANGED runVars

\* child.stdout 'data'
InvStdoutData ==
    /\ child.phase = "running"
    /\ child.out # <<>>
    /\ stdoutBuf' = onData(stdoutBuf, Head(child.out))
    /\ child' = [child EXCEPT !.out = Tail(child.out)]
    /\ UNCHANGED <<stderrBuf, promise, observed, runVars>>

\* child.stderr 'data'
InvStderrData ==
    /\ child.phase = "running"
    /\ child.errOut # <<>>
    /\ stderrBuf' = onData(stderrBuf, Head(child.errOut))
    /\ child' = [child EXCEPT !.errOut = Tail(child.errOut)]
    /\ UNCHANGED <<stdoutBuf, promise, observed, runVars>>

\* child 'error': emitted when the process could not be spawned
InvError ==
    /\ child.phase = "spawnFailed"
    /\ promise' = settle(promise, errorHandler(SpawnError(child.spawnErr)))
    /\ child' = [child EXCEPT !.phase = "errored"]
    /\ UNCHANGED <<stdoutBuf, stderrBuf, observed, runVars>>

\* child 'close': emitted once the process has ended and its stdio streams are
\* closed (so after every 'data'), and also after the 'error' of a failed spawn
InvClose ==
    /\ \/ child.phase = "running" /\ child.out = <<>> /\ child.errOut = <<>>
       \/ child.phase = "errored"
    /\ promise' = settle(promise, closeHandler(child.code, stdoutBuf, stderrBuf))
    /\ child' = [child EXCEPT !.phase = "closed"]
    /\ UNCHANGED <<stdoutBuf, stderrBuf, observed, runVars>>

\* the caller's await continues with the promise's outcome
InvDeliver ==
    /\ promise.state = "settled"
    /\ ~promise.delivered
    /\ observed' = Append(observed, promise.outcome)
    /\ promise' = [promise EXCEPT !.delivered = TRUE]
    /\ UNCHANGED <<child, stdoutBuf, stderrBuf, runVars>>

\* the invocation is over; the next runCommand call starts afresh
InvReset ==
    /\ child.phase \in {"closed", "errored"}
    /\ promise.delivered
    /\ child' = NoChild
    /\ stdoutBuf' = <<>>
    /\ stderrBuf' = <<>>
    /\ promise' = NoPromise
    /\ observed' = <<>>
    /\ UNCHANGED runVars

InvokerNext ==
    \/ InvSpawn
    \/ InvStdoutData
    \/ InvStderrData
    \/ InvError
    \/ InvClose
    \/ InvDeliver
    \/ InvReset

InvokerSpec == InvokerInit /\ [][InvokerNext]_vars

(***************************************************************************)
(* C6  Process invoker settles exactly once: whatever the order of the      *)
(* child's stdout/stderr 'data', 'error' and 'close' events (both 'error'   *)
(* and 'close' may fire for one child), the awaiting caller is handed at    *)
(* most one outcome; once 'error' or 'close' has fired the promise is       *)
(* settled, and once its outcome is delivered the caller has seen exactly   *)
(* one outcome, the one the first settling event produced.                  *)
(***************************************************************************)
C6_SettlesExactlyOnce ==
    /\ Len(observed) <= 1
    /\ child.phase \in {"errored", "closed"} => promise.state = "settled"
    /\ (promise.state = "settled" /\ promise.delivered) =>
            /\ Len(observed) = 1
            /\ observed[1] = promise.outcome
    /\ (child.phase = "closed" /\ child.spawnErr # "") =>
            promise.outcome = errorHandler(SpawnError(child.spawnErr))

\* 'error' and 'close' have both fired for one child and the caller has its outcome
C6_Witness ==
    /\ child.phase = "closed"
    /\ child.spawnErr # ""
    /\ promise.delivered
    /\ Len(observed) = 1

(***************************************************************************)
(* C7  Process invoker outcome mapping: the outcome handed to the caller    *)
(* is a result holding all the stdout and stderr text the child wrote if    *)
(* and only if the child exited with code 0; for a nonzero code it is a     *)
(* failure carrying that code and all the stderr text written; for a failed *)
(* spawn it is the spawn error itself.                                      *)
(***************************************************************************)
C7_OutcomeMapping ==
    \A i \in 1..Len(observed) :
        LET o == observed[i] IN
        IF child.spawnErr # ""
        THEN o = Rejected(SpawnError(child.spawnErr))
        ELSE /\ o.ok <=> child.code = 0
             /\ o.ok => o.stdout = child.fullOut /\ o.stderr = child.fullErr
             /\ ~o.ok => o.err = CommandFailed(child.code, child.fullErr)

\* a child that wrote two stderr chunks and exited 2 has been reported to the caller
C7_Witness ==
    /\ Len(observed) = 1
    /\ child.spawnErr = ""
    /\ child.code = 2
    /\ Len(child.fullErr) = 2
    /\ ~observed[1].ok

(***************************************************************************)
(* Properties of the run (Spec)                                             *)
(***************************************************************************)
Range(q) == {q[i] : i \in 1..Len(q)}
Finished == pc = "exited"

(***************************************************************************)
(* C1  Failure isolation: once the gate has passed and a selection has been *)
(* made, every selected operation has been started by the time the process  *)
(* ends, whatever the operations' outcomes were, and no error has left the  *)
(* loop.                                                                    *)
(***************************************************************************)
C1_FailureIsolation ==
    (Finished /\ gate = "passed" /\ raised # "prompt") =>
        /\ Range(tasksToRun) \subseteq Range(started)
        /\ raised = "none"

(***************************************************************************)
(* C2  Privilege gate: when checkAdmin ends in failure the process is over  *)
(* or on its way out with exit status 1, no catalog operation has been      *)
(* selected or started, no child of one is running and the log holds no     *)
(* entry of a catalog operation; when checkAdmin returns, all it has added  *)
(* to the log is one INFO line.                                             *)
(***************************************************************************)
GateEntries == {"started", "adminOK", "notAdmin", "critical"}

C3_SilentRunsDefaults ==
    silent =>
        /\ \A k \in Range(started) : checked(k)
        /\ pc = "loop" => Range(tasksToRun) = {k \in KeySet : checked(k)}

(***************************************************************************)
(* C4  Sequential execution in catalog order: whatever the selection, the   *)
(* operations are started in the order the catalog declares them, at most   *)
(* one operation has been started and not completed, and at most one child  *)
(* process is running.                                                      *)
(***************************************************************************)
C4_CatalogOrderSequential ==
    /\ \A i, j \in 1..Len(started) :
            i < j => CatalogIndex(started[i]) < CatalogIndex(started[j])
    /\ Len(started) - (idx - 1) \in {0, 1}
    /\ children <= 1

(***************************************************************************)
(* C5  Process exit status: the process ends with status 0 exactly when the *)
(* gate passed and no error was left unhandled, with status 1 exactly when  *)
(* the gate failed or an error was left unhandled, and in the latter case   *)
(* the top-level handler printed the error and called the logger with an    *)
(* ERROR entry before the exit.                                             *)
(***************************************************************************)
C5_ExitStatus ==
    Finished =>
        /\ exitCode = 0 <=> (gate = "passed" /\ raised = "none")
        /\ exitCode = 1 <=> (gate = "failed" \/ raised # "none")
        /\ raised # "none" => critical.printed /\ critical.logCalled

(***************************************************************************)
(* C8  Task outcome and error logging: an operation whose invocations all   *)
(* exit 0 returns true; one with an invocation that exits nonzero returns   *)
(* false; and an operation that returns false has added exactly one ERROR   *)
(* entry to the log, "<title> failed: <message>", with the title its        *)
(* spinner was started with.                                                *)
(***************************************************************************)
ErrorEntries(g) == {i \in 1..Len(g) : g[i].level = "ERROR"}

C8_TaskOutcomeAndErrorLog ==
    last.key # "none" =>
        /\ (last.codes # <<>> /\ \A i \in 1..Len(last.codes) : last.codes[i] = 0) => last.ok
        /\ (\E i \in 1..Len(last.codes) : last.codes[i] # 0) => ~last.ok
        /\ ~last.ok =>
            /\ Cardinality(ErrorEntries(last.gained)) = 1
            /\ \A i \in ErrorEntries(last.gained) :
                /\ last.gained[i].what = "taskFailed"
                /\ last.gained[i].title = last.title

(***************************************************************************)
(* C9  Success is logged: an operation that returns true has appended an    *)
(* INFO entry reporting its success as the last thing before returning, so  *)
(* every operation that ran has left at least one log entry.                *)
(***************************************************************************)
C9_SuccessIsLogged ==
    last.key # "none" =>
        /\ last.gained # <<>>
        /\ last.ok =>
            /\ last.gained[Len(last.gained)].level = "INFO"
            /\ last.gained[Len(last.gained)].what \in {"taskSucceeded", "gathered"}

(***************************************************************************)
(* C10  The logger never fails its caller: a failing log append raises no   *)
(* error, so the only error that can reach the top-level handler is one of  *)
(* the prompt, and a run whose gate passed and whose prompt returned ends   *)
(* with status 0 having started every selected operation.                   *)
(***************************************************************************)
C10_LoggerNeverFails ==
    /\ raised \in {"none", "prompt"}
    /\ (Finished /\ gate = "passed" /\ raised = "none") =>
        /\ exitCode = 0
        /\ Range(tasksToRun) \subseteq Range(started)

(***************************************************************************)
(* C11  Append-only log: no step of a run truncates, rewrites or deletes    *)
(* the log file; in every step the file's content after the step is an      *)
(* extension of its content before the step, whatever the selection (the    *)
(* temporary-file cleanup included).                                        *)
(***************************************************************************)
IsPrefix(a, b) == Len(a) <= Len(b) /\ SubSeq(b, 1, Len(a)) = a

C11_AppendOnlyLog == [][IsPrefix(log, log')]_vars

(***************************************************************************)
(* C12  Cleanup sweep: the cleanup operation, once started, returns true;   *)
(* the sweep of a directory is left only when every entry its enumeration   *)
(* returned has had its removal attempted; when the operation has returned, *)
(* every temp directory has been enumerated, and every directory that could *)
(* not be enumerated has one WARN line and did not stop the sweep of the    *)
(* others; and when the process ends after the sweep, the log holds exactly *)
(* one WARN line per entry that could not be removed.                       *)
(***************************************************************************)
CallsWhere(call, ok) == {i \in 1..Len(calls) : calls[i].call = call /\ calls[i].ok = ok}
EntriesWhere(q, what) == {i \in 1..Len(q) : q[i].what = what}

CleanupReturned == last.key = "cleanup" /\ cur = "none"

SweepOutcome ==
    /\ (Finished /\ "cleanup" \in Range(started)
            /\ started[Len(started)] = "cleanup") => CleanupReturned
    /\ CleanupReturned =>
        /\ last.ok
        /\ Cardinality(CallsWhere("readdir", TRUE) \cup CallsWhere("readdir", FALSE))
                = Len(tempPaths)
        /\ Cardinality(EntriesWhere(last.gained, "couldNotAccess"))
                = Cardinality(CallsWhere("readdir", FALSE))
    /\ (Finished /\ CleanupReturned) =>
        /\ Cardinality(EntriesWhere(log, "couldNotDelete"))
                = Cardinality(CallsWhere("rm", FALSE))
        /\ \A i \in EntriesWhere(log, "couldNotDelete") : log[i].level = "WARN"

C12_CleanupSweep ==
    /\ []SweepOutcome
    /\ [][(pc = "clean_rm" /\ pc' # "clean_rm") => todo = <<>>]_vars

(***************************************************************************)
(* C13  Single-writer log ordering: writeLog is called only when no earlier *)
(* append is still in flight, and the lines of the log file are in          *)
(* non-decreasing timestamp order; timestamps are taken in program order,   *)
(* so this puts every line of an operation (the WARN lines of the cleanup's *)
(* callbacks included) before every line of a later operation.              *)
(***************************************************************************)
TimestampOrder == \A i, j \in 1..Len(log) : i < j => log[i].ts <= log[j].ts

C13_SingleWriterOrdering ==
    /\ []TimestampOrder
    /\ [][now' # now => pending = <<>>]_vars

(***************************************************************************)
(* The text of the log file. Text is a sequence of tokens; the tokens "\n"  *)
(* and "\r\n" are line breaks.                                              *)
(***************************************************************************)
\* os.EOL on Windows
EOL == "\r\n"
LineBreaks == {"\n", "\r\n"}

\* error.message
messageOf(e) ==
    CASE e.kind = "exit"  -> <<"Command failed with exit code ", ToString(e.code), "\n">> \o e.text
      [] e.kind = "spawn" -> <<"spawn ">> \o e.text
      [] e.kind = "fs"    -> <<"EPERM: operation not permitted, ">> \o e.text
      [] e.kind = "parse" -> <<"Unexpected token in JSON at position 0">>
      [] e.kind = "prompt" -> <<"Prompt couldn't be rendered in the current environment">>
      [] e.kind = "sfcCbs" ->
            <<"sfc /scannow failed. This may indicate that Windows Resource Protection found integrity violations.",
              "\n", "  Please check the CBS.log for more details: C:\\Windows\\Logs\\CBS\\CBS.log">>
      [] e.kind = "chocoMissing" ->
            <<"Chocolatey is not installed or not in your PATH. Please install Chocolatey to use this feature.">>
      [] OTHER -> <<>>

\* the message argument of the writeLog call behind an entry
message(entry) ==
    CASE entry.what = "started"  -> <<"Script started.">>
      [] entry.what = "adminOK"  -> <<"Running as Administrator: OK">>
      [] entry.what = "notAdmin" -> <<"ERROR: Script not running as Administrator.">>
      [] entry.what = "critical" -> <<"Critical script error: ">> \o messageOf(entry.err)
      [] entry.what = "taskFailed" -> <<entry.title, " failed: ">> \o messageOf(entry.err)
      [] entry.what = "unlinkFailed" -> <<"Failed to delete temp script: ">> \o messageOf(entry.err)
      [] entry.what = "gathered" -> <<"Gathered Hardware & OS Information">>
      [] entry.what = "cleaningFolder" -> <<"Cleaning folder: ", entry.title>>
      [] entry.what = "couldNotDelete" ->
            <<"Could not delete ", entry.title, ": ">> \o messageOf(entry.err)
      [] entry.what = "couldNotAccess" ->
            <<"Could not access temp path ", entry.title, ": ">> \o messageOf(entry.err)

\* const logEntry = `${timestamp} [${level}] ${message}${os.EOL}`
logEntry(entry) ==
    <<ToString(entry.ts), " ", "[", entry.level, "]", " ">> \o message(entry) \o <<EOL>>

\* the content of the file after the appends that made log
RECURSIVE fileText(_)
fileText(q) == IF q = <<>> THEN <<>> ELSE logEntry(Head(q)) \o fileText(Tail(q))

\* the lines of a text: each line is the tokens up to the next line break
RECURSIVE splitLines(_, _)
splitLines(text, line) ==
    IF text = <<>> THEN (IF line = <<>> THEN <<>> ELSE <<line>>)
    ELSE IF Head(text) \in LineBreaks THEN <<line>> \o splitLines(Tail(text), <<>>)
    ELSE splitLines(Tail(text), Append(line, Head(text)))

NoParse == [level |-> "", message |-> <<>>]

\* reading one line back as "<timestamp> [<LEVEL>] <message>"
parseLine(line) ==
    IF /\ Len(line) >= 6
       /\ line[2] = " " /\ line[3] = "[" /\ line[5] = "]" /\ line[6] = " "
    THEN [level |-> line[4], message |-> SubSeq(line, 7, Len(line))]
    ELSE NoParse

(***************************************************************************)
(* C14  Log format round-trip: the log file has exactly one line per entry  *)
(* written, and reading line i back as "<timestamp> [<LEVEL>] <message>"    *)
(* gives the level and the message text of the i-th writeLog call, for      *)
(* every message the program writes.                                        *)
(***************************************************************************)
C14_LogRoundTrip ==
    LET lines == splitLines(fileText(log), <<>>) IN
    /\ Len(lines) = Len(log)
    /\ \A i \in 1..Len(log) :
        parseLine(lines[i]) = [level |-> log[i].level, message |-> message(log[i])]

(***************************************************************************)
(* C15  Silent-mode winget upgrade: when the winget operation has returned, *)
(* then with the silent flag set and the source refresh having exited 0 it  *)
(* has invoked the upgrade-all command after the refresh, and without the   *)
(* flag it has invoked no upgrade.                                          *)
(***************************************************************************)
\* the upgrade-all command line
UpgradeAll == "winget upgrade --all --accept-package-agreements --accept-source-agreements --silent --disable-interactivity"

Spawned(cmd) == {i \in 1..Len(calls) : calls[i].call = "spawn" /\ calls[i].arg = cmd}

WingetReturned == last.key = "winget" /\ cur = "none"

C15_SilentWingetUpgrade ==
    WingetReturned =>
        /\ (silent /\ last.codes # <<>> /\ last.codes[1] = 0) =>
                \E i \in Spawned(command("winget", 1)), j \in Spawned(UpgradeAll) : i < j
        /\ ~silent => Spawned(UpgradeAll) = {}

(***************************************************************************)
(* C16  File integrity scan failure translation: when the scan has returned *)
(* false, the error its ERROR entry reports is the message pointing at      *)
(* CBS.log if and only if sfc exited with code 1; for every other nonzero   *)
(* code it is the invoker's error, unchanged, with that code and the        *)
(* captured stderr.                                                         *)
(***************************************************************************)
SfcReturned == last.key = "sfc" /\ cur = "none"

C16_SfcTranslation ==
    (SfcReturned /\ ~last.ok) =>
        \A i \in ErrorEntries(last.gained) :
            /\ last.gained[i].err = SfcCbsError <=> last.codes[1] = 1
            /\ last.codes[1] # 1 =>
                /\ last.gained[i].err.kind = "exit"
                /\ last.gained[i].err.code = last.codes[1]
                /\ last.gained[i].err.text \in TaskStderrs

(***************************************************************************)
(* C17  Temporary script cleanup on every path: when an operation that      *)
(* wrote its script to a temp file (winUpdate, hwInfo) has returned, it has *)
(* called unlink on that file after writing it, whether its command exited  *)
(* 0, exited nonzero or printed output that does not parse; and when the    *)
(* unlink failed, the operation has logged one WARN line about it and its   *)
(* outcome is the one its command alone decides.                            *)
(***************************************************************************)
ScriptOps == {"hwInfo", "winUpdate"}
ScriptOpReturned == last.key \in ScriptOps /\ cur = "none"

C17_TempScriptCleanup ==
    ScriptOpReturned =>
        /\ \A i \in CallsWhere("writeFile", TRUE) :
                \E j \in (i + 1)..Len(calls) : calls[j].call = "unlink"
        /\ CallsWhere("unlink", FALSE) # {} =>
            /\ Cardinality(EntriesWhere(last.gained, "unlinkFailed")) = 1
            /\ \A i \in EntriesWhere(last.gained, "unlinkFailed") :
                    last.gained[i].level = "WARN"
            /\ last.ok <=> \A i \in 1..Len(last.codes) : last.codes[i] = 0

====
